---- MODULE Spec2Model ----
(***************************************************************************)
(* request-ssl (lib/index.js): certificate pinning on top of `request`.    *)
(*                                                                         *)
(* Texts (URLs, hosts, registry keys) are records                          *)
(*   [scheme, labels, port, path]                                          *)
(* scheme = "" is a text without a protocol (a bare host or pattern),      *)
(* labels is the dot-separated host, port = "" is "no port written",        *)
(* path = "" is "no path written".  Fingerprint texts are sequences of     *)
(* tokens, <<>> being the empty string.                                    *)
(***************************************************************************)
EXTENDS Integers, Sequences, FiniteSets, TLC

VARIABLES fingerprints, lastURL, exch, nsig, last, lastOp

vars == <<fingerprints, lastURL, exch, nsig, last, lastOp>>

(* ---------------------------- bounds ----------------------------------- *)

\* in-flight exchanges of the model
NumExchanges == 1

\* handshake / response events delivered in one behaviour
MaxSignals == 3

Exchanges == 1..NumExchanges

(* ---------------------------- texts ------------------------------------ *)

Text(s, h, p, pa) == [scheme |-> s, labels |-> h, port |-> p, path |-> pa]

NoPort == ""

Bare(h) == Text("", h, NoPort, "")

ExampleCom == <<"example", "com">>

AExampleCom == <<"a", "example", "com">>

StarExampleCom == <<"*", "example", "com">>

Hosts == {ExampleCom, AExampleCom}

Port8443 == "8443"

\* JavaScript undefined / null, as a value comparable with a text
nullText == Text("null", <<>>, NoPort, "")

\* JavaScript undefined, as a value comparable with a fingerprint text
undefined == <<"undefined">>

SHA1Label == "SHA1 Fingerprint="

AA11 == <<"AA11">>

BB22 == <<"BB22">>

(* ------------------------- pure functions ------------------------------ *)

\* urlib.parse(url).host: the host WITH its port for a text with a
\* protocol; for a text without "//" the part before the first ":" is
\* taken as the protocol, so "h:8443" parses to the host "8443"; a text
\* with neither has no host.
urlib_parse_host(url) ==
    IF url.scheme # ""
    THEN Text("", url.labels, url.port, "")
    ELSE IF url.port # NoPort
         THEN Bare(<<url.port>>)
         ELSE nullText

\* getDomain(url): domain || url
getDomain(url) ==
    LET domain == urlib_parse_host(url)
    IN  IF domain # nullText THEN domain ELSE url

\* JavaScript truthiness of a looked-up fingerprint
truthy(found) == found # undefined /\ found # <<>>

\* fingerprints[domain]
lookupKey(reg, domain) ==
    IF domain \in DOMAIN reg THEN reg[domain] ELSE undefined

\* tokens.splice(start): the removed elements, from start to the end
splice(tokens, start) == SubSeq(tokens, start + 1, Len(tokens))

\* '*.' + tokens.splice(tokens.length > 1 ? 0 : 1).join('.')
wildcardDomain(domain) ==
    LET u      == urlib_parse_host(domain)
        tokens == IF u # nullText THEN u.labels ELSE domain.labels
        kept   == splice(tokens, IF Len(tokens) > 1 THEN 0 ELSE 1)
    IN  Bare(<<"*">> \o (IF kept = <<>> THEN <<"">> ELSE kept))

\* getFingerprintForURL(url) on the registry reg
lookupIn(reg, url) ==
    LET domain == getDomain(url)
        found  == lookupKey(reg, domain)
    IN  IF ~truthy(found)
        THEN lookupKey(reg, wildcardDomain(domain))
        ELSE found

getFingerprintForURL(url) == lookupIn(fingerprints, url)

\* fingerprint.replace(/^SHA1\sFingerprint=(.*)/,'$1')
stripLabel(fingerprint) ==
    IF Len(fingerprint) > 0 /\ Head(fingerprint) = SHA1Label
    THEN Tail(fingerprint)
    ELSE fingerprint

\* createErrorMessage(errorcode, url): the RequestSSLError, by id and argument
createErrorMessage(errorcode, url) == [id |-> errorcode, arg |-> url]

DomainInvalid == "request.ssl.security.domain.invalid"

DomainNotAuthorized == "request.ssl.security.domain.notauthorized"

DomainFingerprintMismatch == "request.ssl.security.domain.fingerprint.mismatch"

\* the notification the transport itself gives the caller's callback
Complete == "complete"

(* --------------------------- initial state ----------------------------- *)

NoExchange ==
    [st |-> "none", isSSL |-> FALSE, handler |-> FALSE, hasCallback |-> FALSE,
     originalCallback |-> "false", requested |-> nullText, url |-> nullText,
     aborted |-> FALSE,
     done |-> FALSE, calls |-> <<>>, events |-> <<>>, rejects |-> <<>>,
     raised |-> FALSE]

NoSignal ==
    [sig |-> "none", ex |-> 0, host |-> <<>>, authorized |-> TRUE,
     observed |-> <<>>, outcome |-> "none", threw |-> FALSE]

\* the last registry call: its arguments, whether it raised, and the keys the
\* registry held before it
NoOp ==
    [op |-> "none", url |-> nullText, text |-> <<>>, threw |-> FALSE,
     had |-> {}]

\* var fingerprints = {}
emptyRegistry == [k \in {} |-> <<>>]

Init ==
    /\ fingerprints = emptyRegistry
    /\ lastURL = nullText
    /\ exch = [i \in Exchanges |-> NoExchange]
    /\ nsig = 0
    /\ last = NoSignal
    /\ lastOp = NoOp

(* --------------------------- the registry ------------------------------ *)

\* '' as a url / name argument
emptyText == Bare(<<>>)

\* addFingerprint without its two argument checks
addFingerprint_Unchecked(url, fingerprint) ==
    /\ LET name == getDomain(url)
       IN  /\ fingerprints' =
                 [k \in DOMAIN fingerprints \cup {name} |->
                     IF k = name THEN stripLabel(fingerprint)
                                 ELSE fingerprints[k]]
           /\ lastOp' = [op |-> "add", url |-> url, text |-> fingerprint,
                         threw |-> FALSE, had |-> DOMAIN fingerprints]
    /\ UNCHANGED <<lastURL, exch, nsig, last>>

\* Request.addFingerprint(url, fingerprint)
addFingerprint(url, fingerprint) ==
    /\ IF url = emptyText \/ fingerprint = <<>>
       THEN /\ lastOp' = [op |-> "add", url |-> url, text |-> fingerprint,
                          threw |-> TRUE, had |-> DOMAIN fingerprints]
            /\ UNCHANGED fingerprints
       ELSE LET name == getDomain(url)
            IN  /\ fingerprints' =
                      [k \in DOMAIN fingerprints \cup {name} |->
                          IF k = name THEN stripLabel(fingerprint)
                                      ELSE fingerprints[k]]
                /\ lastOp' = [op |-> "add", url |-> url, text |-> fingerprint,
                              threw |-> FALSE, had |-> DOMAIN fingerprints]
    /\ UNCHANGED <<lastURL, exch, nsig, last>>

\* Request.removeFingerprint(name)
removeFingerprint(name) ==
    /\ fingerprints' =
          [k \in DOMAIN fingerprints \ {getDomain(name)} |-> fingerprints[k]]
    /\ lastOp' = [op |-> "remove", url |-> name, text |-> <<>>, threw |-> FALSE,
                  had |-> DOMAIN fingerprints]
    /\ UNCHANGED <<lastURL, exch, nsig, last>>

\* removeAllFingerprints assigning a local `fingerprints`, not the module's
removeAllFingerprints_Shadowed ==
    /\ lastOp' = [op |-> "removeAll", url |-> nullText, text |-> <<>>,
                  threw |-> FALSE, had |-> DOMAIN fingerprints]
    /\ UNCHANGED <<fingerprints, lastURL, exch, nsig, last>>

\* Request.removeAllFingerprints()
removeAllFingerprints ==
    /\ fingerprints' = emptyRegistry
    /\ lastOp' = [op |-> "removeAll", url |-> nullText, text |-> <<>>,
                  threw |-> FALSE, had |-> DOMAIN fingerprints]
    /\ UNCHANGED <<lastURL, exch, nsig, last>>

(* --------------------------- an exchange ------------------------------- *)

\* the exchange record Request(url, callback) builds, given isSSL
newExchange(url, handler, isSSL) ==
    [NoExchange EXCEPT
        !.st = "open", !.isSSL = isSSL, !.handler = handler,
        !.hasCallback = isSSL /\ handler,
        !.originalCallback = IF isSSL /\ handler THEN "fn" ELSE "false",
        !.requested = url, !.url = url]

\* Request installing its hooks whatever the protocol of the URL
Request_AlwaysHooked(i, url, handler) ==
    /\ exch[i].st = "none"
    /\ exch' = [exch EXCEPT ![i] = newExchange(url, handler, TRUE)]
    /\ lastURL' = url
    /\ UNCHANGED <<fingerprints, nsig, last, lastOp>>

\* Request(url, callback): the transport gets the caller's own callback
\* (request.apply(null, args)); the hooks are installed for https only.
Request(i, url, handler) ==
    /\ exch[i].st = "none"
    /\ LET isSSL == url.scheme = "https"
       IN  /\ exch' = [exch EXCEPT ![i] = newExchange(url, handler, isSSL)]
           /\ lastURL' = IF isSSL THEN url ELSE lastURL
    /\ UNCHANGED <<fingerprints, nsig, last, lastOp>>

\* wrappedCallback without `hasCallback = true` before the emit
wrappedCallback_Unlatched(e, err, throws) ==
    IF e.hasCallback /\ e.originalCallback = "fn"
    THEN [e EXCEPT !.calls = Append(@, err),
                   !.originalCallback = IF throws THEN "fn" ELSE "null",
                   !.raised = @ \/ throws]
    ELSE IF ~e.hasCallback
         THEN [e EXCEPT !.events = Append(@, err)]
         ELSE e

\* wrappedCallback(err) on the exchange record e; throws: the caller's
\* callback raises, so the statement after its invocation is not reached
wrappedCallback(e, err, throws) ==
    IF e.hasCallback /\ e.originalCallback = "fn"
    THEN [e EXCEPT !.calls = Append(@, err),
                   !.originalCallback = IF throws THEN "fn" ELSE "null",
                   !.raised = @ \/ throws]
    ELSE IF ~e.hasCallback
         THEN [e EXCEPT !.hasCallback = TRUE, !.events = Append(@, err)]
         ELSE e

\* req.abort(); callback(createErrorMessage(errorcode, url))
reject(e, errorcode, throws) ==
    wrappedCallback([e EXCEPT !.aborted = TRUE,
                              !.rejects = Append(@, errorcode)],
                    createErrorMessage(errorcode, e.url), throws)

\* a socket of the exchange completes its TLS handshake; hostOf is the host
\* the socket is connected to.  With the hooks installed (isSSL) this runs
\* the socket.on('secureConnect') listener; without them nothing listens.
secureConnect(i, hostOf, authorized, throws) ==
    /\ exch[i].st = "open"
    /\ nsig < MaxSignals
    /\ throws => (exch[i].isSSL /\ ~authorized /\ exch[i].hasCallback
                                /\ exch[i].originalCallback = "fn")
    /\ nsig' = nsig + 1
    /\ exch' = [exch EXCEPT ![i] =
                  IF authorized \/ ~exch[i].isSSL THEN @
                  ELSE reject(@, DomainNotAuthorized, throws)]
    /\ last' = [sig |-> "A", ex |-> i, host |-> hostOf,
                authorized |-> authorized, observed |-> <<>>,
                outcome |-> IF authorized \/ ~exch[i].isSSL THEN "none"
                            ELSE DomainNotAuthorized,
                threw |-> throws]
    /\ UNCHANGED <<fingerprints, lastURL, lastOp>>

\* the decision of the response listener for the looked-up fingerprint
\* shouldMatch and the certificate's fingerprint
decision(shouldMatch, fingerprint) ==
    IF ~truthy(shouldMatch) THEN DomainInvalid
    ELSE IF shouldMatch # fingerprint THEN DomainFingerprintMismatch
    ELSE "allow"

\* the response listener also recording, for a host without a fingerprint,
\* the certificate's fingerprint in the registry
response_Recording(i, host, fingerprint, authorized, throws) ==
    /\ exch[i].st = "open"
    /\ nsig < MaxSignals
    /\ nsig' = nsig + 1
    /\ IF exch[i].isSSL
       THEN LET url         == Bare(host)
                shouldMatch == getFingerprintForURL(url)
                e           == [exch[i] EXCEPT !.url = url]
                outcome     == decision(shouldMatch, fingerprint)
            IN  /\ throws => (outcome # "allow" /\ e.hasCallback
                                                /\ e.originalCallback = "fn")
                /\ lastURL' = Text("https", host, NoPort, "")
                /\ exch' = [exch EXCEPT ![i] =
                              IF outcome = "allow" THEN e
                              ELSE reject(e, outcome, throws)]
                /\ last' = [sig |-> "B", ex |-> i, host |-> host,
                            authorized |-> authorized,
                            observed |-> fingerprint,
                            outcome |-> outcome, threw |-> throws]
                /\ fingerprints' =
                      IF truthy(shouldMatch) THEN fingerprints
                      ELSE [k \in DOMAIN fingerprints \cup {url} |->
                               IF k = url THEN fingerprint
                               ELSE fingerprints[k]]
       ELSE /\ ~throws
            /\ last' = [sig |-> "B", ex |-> i, host |-> host,
                        authorized |-> authorized, observed |-> fingerprint,
                        outcome |-> "none", threw |-> FALSE]
            /\ UNCHANGED <<exch, lastURL, fingerprints>>
    /\ UNCHANGED lastOp

\* a response of the exchange arrives: host is resp.request.uri.host,
\* fingerprint is socket.getPeerCertificate().fingerprint, authorized is
\* socket.authorized.  With the hooks installed (isSSL) this runs the
\* req.on('response') listener; without them nothing listens.
response(i, host, fingerprint, authorized, throws) ==
    /\ exch[i].st = "open"
    /\ nsig < MaxSignals
    /\ nsig' = nsig + 1
    /\ IF exch[i].isSSL
       THEN LET url         == Bare(host)
                shouldMatch == getFingerprintForURL(url)
                e           == [exch[i] EXCEPT !.url = url]
                outcome     == decision(shouldMatch, fingerprint)
            IN  /\ throws => (outcome # "allow" /\ e.hasCallback
                                                /\ e.originalCallback = "fn")
                /\ lastURL' = Text("https", host, NoPort, "")
                /\ exch' = [exch EXCEPT ![i] =
                              IF outcome = "allow" THEN e
                              ELSE reject(e, outcome, throws)]
                /\ last' = [sig |-> "B", ex |-> i, host |-> host,
                            authorized |-> authorized,
                            observed |-> fingerprint,
                            outcome |-> outcome, threw |-> throws]
       ELSE /\ ~throws
            /\ last' = [sig |-> "B", ex |-> i, host |-> host,
                        authorized |-> authorized, observed |-> fingerprint,
                        outcome |-> "none", threw |-> FALSE]
            /\ UNCHANGED <<exch, lastURL>>
    /\ UNCHANGED <<fingerprints, lastOp>>

\* the transport finishes the exchange itself and calls the callback it was
\* given, the caller's own; an aborted exchange delivers nothing
complete(i) ==
    /\ exch[i].st = "open"
    /\ exch[i].handler
    /\ ~exch[i].aborted
    /\ ~exch[i].done
    /\ exch' = [exch EXCEPT ![i].done = TRUE,
                            ![i].calls = Append(@, createErrorMessage(Complete,
                                                      exch[i].url))]
    /\ UNCHANGED <<fingerprints, lastURL, nsig, last, lastOp>>

(* ------------------------- specifications ------------------------------ *)

\* the URLs of the exchanges
RequestURLs ==
    {Text("https", ExampleCom, NoPort, "/path"),
     Text("http", ExampleCom, NoPort, "/path")}

\* the certificate fingerprints the sockets present
Observed == {AA11, BB22}

\* the registrations made while exchanges are in flight
PinURLs == {Bare(ExampleCom), Bare(StarExampleCom)}

PinTexts == {AA11, <<SHA1Label>>}

Signal ==
    \/ \E i \in Exchanges, h \in Hosts, a \in BOOLEAN, t \in BOOLEAN :
          secureConnect(i, h, a, t)
    \/ \E i \in Exchanges, h \in Hosts, f \in Observed, a \in BOOLEAN,
          t \in BOOLEAN :
          response(i, h, f, a, t)

Next ==
    \/ \E i \in Exchanges, u \in RequestURLs, cb \in BOOLEAN : Request(i, u, cb)
    \/ Signal
    \/ \E i \in Exchanges : complete(i)
    \/ \E u \in PinURLs, f \in PinTexts : addFingerprint(u, f)
    \/ \E u \in PinURLs : removeFingerprint(u)
    \/ removeAllFingerprints

Spec == Init /\ [][Next]_vars

\* the registry alone, under every form of argument
RegistryURLs ==
    {Bare(ExampleCom), Bare(AExampleCom), Bare(StarExampleCom),
     Text("https", ExampleCom, NoPort, "/path"),
     Text("https", ExampleCom, Port8443, "/path"), emptyText}

RegistryTexts == {AA11, BB22, <<SHA1Label, "AA11">>, <<SHA1Label>>, <<>>}

RegistryNext ==
    \/ \E u \in RegistryURLs, f \in RegistryTexts : addFingerprint(u, f)
    \/ \E u \in RegistryURLs : removeFingerprint(u)
    \/ removeAllFingerprints

RegistrySpec == Init /\ [][RegistryNext]_vars

(* ------------------------------ claims --------------------------------- *)

\* the wildcard pattern of a host as the specification derives it: the
\* leftmost label replaced by '*'
LeftmostStar(h) == Bare(<<"*">> \o Tail(h))

\* the host has no registry entry, neither exact nor under its pattern
NoRegistryEntry(h) ==
    /\ Bare(h) \notin DOMAIN fingerprints
    /\ LeftmostStar(h) \notin DOMAIN fingerprints

\* the fingerprint registered for a host: its exact entry, else its pattern's
Registered(h) ==
    IF Bare(h) \in DOMAIN fingerprints
    THEN fingerprints[Bare(h)]
    ELSE fingerprints[LeftmostStar(h)]

\* the URL forms of a host
FormsOf(h) ==
    {Bare(h), Text("https", h, NoPort, "/path"),
     Text("https", h, Port8443, "/path")}

\* this step is a response-received signal of the https exchange i
ResponseStep(i) ==
    exch[i].isSSL /\ nsig' = nsig + 1 /\ last'.sig = "B" /\ last'.ex = i

\* C1: the caller-supplied completion handler executes at most once per
\* exchange, whatever the order of the signals and the transport's
\* completion (stated here for handlers that return normally).
C1_HandlerAtMostOnce ==
    \A i \in Exchanges : ~exch[i].raised => Len(exch[i].calls) <= 1

\* C2: when several rejecting signals fire in an exchange that has a
\* completion handler, the handler is invoked exactly once, with the error
\* of the first rejecting signal.
C2_FirstDecisionWins ==
    \A i \in Exchanges :
        (exch[i].handler /\ Len(exch[i].rejects) >= 2) =>
            /\ Len(exch[i].calls) = 1
            /\ exch[i].calls[1].id = exch[i].rejects[1]

\* C3: every decision evaluated for a socket whose authorization flag is
\* false is RejectUnauthorized, at the handshake signal and at the
\* response-received signal alike (stated here in the claim's last clause:
\* the decision of a response-received signal is not Allow on such a socket).
C3_UnauthorizedRejected ==
    (last.sig = "B" /\ ~last.authorized) => last.outcome # "allow"

\* C4: a response-received signal for a resolved host with no registry entry
\* (neither exact nor under its wildcard pattern) aborts the exchange and
\* rejects it as domain-invalid.
C4_FailClosed ==
    [][\A i \in Exchanges :
          (ResponseStep(i) /\ NoRegistryEntry(last'.host)) =>
              (last'.outcome = DomainInvalid /\ exch'[i].aborted)]_vars

\* C5: on an authorized handshake, for a resolved host with registered
\* fingerprint F, F # observed aborts and rejects as fingerprint-mismatch and
\* F = observed allows: no abort, no error delivered.
C5_CompareRegistered ==
    [][\A i \in Exchanges :
          (/\ ResponseStep(i)
           /\ last'.authorized
           /\ ~NoRegistryEntry(last'.host)) =>
              IF Registered(last'.host) # last'.observed
              THEN /\ last'.outcome = DomainFingerprintMismatch
                   /\ exch'[i].aborted
              ELSE /\ last'.outcome = "allow"
                   /\ exch'[i].aborted = exch[i].aborted
                   /\ exch'[i].calls = exch[i].calls
                   /\ exch'[i].events = exch[i].events]_vars

\* C6: a host with no exact entry is looked up under the pattern that
\* replaces its leftmost label by '*', and gets that pattern's fingerprint.
C6_WildcardResolution ==
    \A h \in Hosts :
        (/\ Bare(h) \notin DOMAIN fingerprints
         /\ LeftmostStar(h) \in DOMAIN fingerprints) =>
            getFingerprintForURL(Bare(h)) = fingerprints[LeftmostStar(h)]

\* C7: a wildcard registration *.h does not cover the bare domain h: with
\* no entry of its own, lookup of h is not-found.
C7_BareDomainNotCovered ==
    \A h \in Hosts :
        (/\ Bare(<<"*">> \o h) \in DOMAIN fingerprints
         /\ NoRegistryEntry(h)) =>
            getFingerprintForURL(Bare(h)) = undefined

\* C8: lookup of an exactly registered host returns the stored value of its
\* own entry, whatever other entries the registry holds.
C8_ExactLookup ==
    \A h \in Hosts :
        Bare(h) \in DOMAIN fingerprints =>
            getFingerprintForURL(Bare(h)) = fingerprints[Bare(h)]

\* C9: register, unregister and lookup take any URL form of a host for the
\* host: after registering under one form, lookup under every form returns
\* that fingerprint; after unregistering under one form, the host's entry
\* is gone.
C9_Normalisation ==
    /\ (/\ lastOp.op = "add"
        /\ ~lastOp.threw
        /\ lastOp.url.labels \in Hosts
        /\ stripLabel(lastOp.text) # <<>>) =>
            \A f \in FormsOf(lastOp.url.labels) :
                getFingerprintForURL(f) = stripLabel(lastOp.text)
    /\ (lastOp.op = "remove" /\ lastOp.url.labels \in Hosts) =>
            Bare(lastOp.url.labels) \notin DOMAIN fingerprints

\* C10: last write wins: a register of a host makes lookup of that host
\* return the fingerprint just registered, and it stays so until the next
\* register or unregister of that host or a clearAll.
C10_LastWriteWins ==
    [][\A h \in Hosts :
          /\ (/\ lastOp'.op = "add"
              /\ ~lastOp'.threw
              /\ lastOp'.url = Bare(h)) =>
                  lookupIn(fingerprints', Bare(h)) = stripLabel(lastOp'.text)
          /\ (/\ Bare(h) \in DOMAIN fingerprints
              /\ lastOp'.op \in {"add", "remove"}
              /\ lastOp'.url.labels # h) =>
                  lookupIn(fingerprints', Bare(h)) =
                      lookupIn(fingerprints, Bare(h))]_vars

\* C11: register raises whenever the domain/URL or the fingerprint text is
\* empty, and a register that raised leaves the registry as it was.
C11_EmptyArgumentRejected ==
    [][(/\ lastOp'.op = "add"
        /\ (lastOp'.url = emptyText \/ lastOp'.text = <<>>)) =>
            (lastOp'.threw /\ fingerprints' = fingerprints)]_vars

\* a register with an empty argument was made on a registry holding entries
C11_Witness ==
    /\ lastOp.op = "add"
    /\ lastOp.url = emptyText \/ lastOp.text = <<>>
    /\ lastOp.threw
    /\ lastOp.had # {}
    /\ DOMAIN fingerprints = lastOp.had

\* lookup is not-found under every URL form of every host, on the registry reg
AllNotFound(reg) ==
    \A h \in Hosts : \A f \in FormsOf(h) : lookupIn(reg, f) = undefined

\* C12: after clearAll lookup is not-found for every host, and stays so
\* until the next register.
C12_ClearAll ==
    [][/\ lastOp'.op = "removeAll" => AllNotFound(fingerprints')
       /\ (AllNotFound(fingerprints) /\ lastOp'.op # "add") =>
              AllNotFound(fingerprints')]_vars

\* clearAll was called on a registry holding an exact and a wildcard entry
C12_Witness ==
    /\ lastOp.op = "removeAll"
    /\ Bare(ExampleCom) \in lastOp.had
    /\ Bare(StarExampleCom) \in lastOp.had
    /\ getFingerprintForURL(Bare(ExampleCom)) = undefined

\* C13: without a completion handler, a rejected exchange raises exactly one
\* error event, carrying the error of the first reject decision; later
\* rejecting signals raise no second event.
C13_ErrorEventOnce ==
    \A i \in Exchanges :
        (exch[i].isSSL /\ ~exch[i].handler /\ exch[i].rejects # <<>>) =>
            /\ Len(exch[i].events) = 1
            /\ exch[i].events[1].id = exch[i].rejects[1]
            /\ exch[i].calls = <<>>

\* an exchange without a handler was rejected twice, by different decisions
C13_Witness ==
    \E i \in Exchanges :
        /\ exch[i].isSSL
        /\ ~exch[i].handler
        /\ Len(exch[i].rejects) >= 2
        /\ exch[i].rejects[1] # exch[i].rejects[2]
        /\ Len(exch[i].events) = 1

\* this step is a handshake or response signal of the https exchange i
SignalStep(i) == exch[i].isSSL /\ nsig' = nsig + 1 /\ last'.ex = i

\* C14: once an exchange has been rejected, a later signal is a no-op: no
\* further abort, no change of the resolved host, no notification.
C14_RejectedIsAbsorbing ==
    [][\A i \in Exchanges :
          (SignalStep(i) /\ exch[i].rejects # <<>>) =>
              /\ exch'[i].rejects = exch[i].rejects
              /\ exch'[i].url = exch[i].url
              /\ exch'[i].calls = exch[i].calls
              /\ exch'[i].events = exch[i].events]_vars

\* C15: after a hop that was allowed, the next response-received signal is
\* decided against its own host, which becomes the resolved host, and its
\* own fingerprint: the exchange is aborted and rejected when that host has
\* no registered fingerprint or one that differs from the observed one.
C15_AllowIsNotTerminal ==
    [][\A i \in Exchanges :
          (/\ ResponseStep(i)
           /\ last.sig = "B" /\ last.ex = i /\ last.outcome = "allow"
           /\ ~exch[i].aborted) =>
              /\ exch'[i].url = Bare(last'.host)
              /\ (\/ NoRegistryEntry(last'.host)
                  \/ Registered(last'.host) # last'.observed) =>
                     (last'.outcome # "allow" /\ exch'[i].aborted)]_vars

\* C16: a structured error delivered by a signal names the host the
\* rejecting decision was evaluated against; for the handshake signal that
\* is the host of the socket whose handshake was unauthorized.
C16_ErrorNamesHost ==
    [][\A i \in Exchanges :
          (SignalStep(i) /\ last'.outcome \notin {"none", "allow"}) =>
              /\ Len(exch'[i].calls) > Len(exch[i].calls) =>
                    exch'[i].calls[Len(exch'[i].calls)].arg = Bare(last'.host)
              /\ Len(exch'[i].events) > Len(exch[i].events) =>
                    exch'[i].events[Len(exch'[i].events)].arg =
                        Bare(last'.host)]_vars

C18_NonEmptyEntries ==
    \A k \in DOMAIN fingerprints : fingerprints[k] # <<>>

\* the errors the interceptor delivered to the caller's handler
errorCalls(i) == SelectSeq(exch[i].calls, LAMBDA c : c.id # Complete)

\* C19: the latch is set before the handler runs: the interceptor does not
\* invoke the handler a second time, also when the handler raised.
C19_LatchBeforeInvocation ==
    \A i \in Exchanges : Len(errorCalls(i)) <= 1

\* C20: for an exchange whose original URL is not https the interceptor
\* evaluates no decision, never aborts and delivers no pinning error,
\* whatever handshake and response events occur.
C20_NonHttpsUntouched ==
    \A i \in Exchanges :
        (exch[i].st = "open" /\ exch[i].requested.scheme # "https") =>
            /\ ~exch[i].aborted
            /\ exch[i].rejects = <<>>
            /\ exch[i].events = <<>>
            /\ errorCalls(i) = <<>>
            /\ exch[i].url = exch[i].requested
            /\ last.ex = i => last.outcome = "none"

\* an exchange for an http URL got an unauthorized handshake and then the
\* response of a host without a registered fingerprint
C20_Witness ==
    \E i \in Exchanges :
        /\ exch[i].requested.scheme = "http"
        /\ nsig >= 2
        /\ last.sig = "B"
        /\ last.ex = i
        /\ ~last.authorized
        /\ ~truthy(getFingerprintForURL(Bare(last.host)))

====
